---------------------------- MODULE Spec2Model ----------------------------
(***************************************************************************)
(* A model of the TurtlebotFollower nodelet of random_walker.cpp: the box  *)
(* filter over one point cloud, the bumper event callback, the per-frame   *)
(* dispatch of cloudcb with its blocking recovery loops, the start/stop    *)
(* service and dynamic reconfiguration.                                    *)
(*                                                                         *)
(* Units.  Coordinates are integers in hundredths (0.2 is 20).  Velocities *)
(* are integers in 1/700 (0.4 is 280), the smallest unit in which the      *)
(* literals of the code, n/7.0 and n/10 are all exact; the double          *)
(* comparisons of the code agree with the exact ones on all these values.  *)
(***************************************************************************)
EXTENDS Integers, Sequences, FiniteSets

\* The longest point cloud of the model, in runs of identical points.
MaxRuns == 2

\* The most bumper callbacks that run during one recovery loop (SpecRace).
MaxRaced == 1

\* The longest cloud, in runs, given to the box filter alone.
MaxFilterRuns == 3

\* ------------------------------------------------------------------ values

\* A velocity literal given in thousandths (Milli(400) is 0.4), in 1/700.
Milli(m) == (m * 7) \div 10

Cmd(lin, ang) == [linear_x |-> lin, angular_z |-> ang]

\* new geometry_msgs::Twist(): all fields zero.
ZeroTwist == Cmd(0, 0)

\* A float coordinate: a value or NaN.  Every comparison with NaN is false.
F(v) == [nan |-> FALSE, v |-> v]
NaN == [nan |-> TRUE, v |-> 0]
IsNaN(c) == c.nan
Lt(a, b) == ~a.nan /\ ~b.nan /\ a.v < b.v
Gt(a, b) == Lt(b, a)
Neg(a) == [nan |-> a.nan, v |-> 0 - a.v]
\* std::min(a, b): (b < a) ? b : a
FMin(a, b) == IF Lt(b, a) THEN b ELSE a
\* m equal addends b added to a.
AddTimes(a, b, m) == [nan |-> a.nan \/ b.nan, v |-> a.v + m * b.v]

Sides == {"left", "center", "right"}

\* ----------------------------------------------------------- configuration

\* The constructor's defaults (min_y_ .. x_scale_), in hundredths.
DefaultConfig ==
  [min_y |-> 10, max_y |-> 50, min_x |-> -20, max_x |-> 20,
   max_z |-> 80, goal_z |-> 60, z_scale |-> 100, x_scale |-> 500]

\* A reconfigured box wide enough for centroids left and right of +-0.2.
WideConfig == [DefaultConfig EXCEPT !.min_x = -40, !.max_x = 40]

Configs == {DefaultConfig, WideConfig}

\* ------------------------------------------------------------ point clouds

Point(x, y, z) == [x |-> x, y |-> y, z |-> z]

Points ==
  { Point(F(5), F(-30), F(70)),      \* ahead, beyond goal_z
    Point(F(5), F(-30), F(50)),      \* ahead, inside goal_z
    Point(F(5), F(-30), F(60)),      \* ahead, at goal_z
    Point(F(30), F(-30), F(70)),     \* to the right
    Point(F(-30), F(-30), F(70)),    \* to the left
    Point(NaN, F(-30), F(70)) }      \* an invalid reading

\* A run is `mult` consecutive copies of one point.
Runs == [pt : Points, mult : {1, 4000}]

Clouds == UNION { [1..k -> Runs] : k \in 0..MaxRuns }

\* A variant whose z test is written !(pt.z >= max_z_).
InBox_NegatedZ(pt, c) ==
  /\ Gt(Neg(pt.y), F(c.min_y))
  /\ Lt(Neg(pt.y), F(c.max_y))
  /\ Lt(pt.x, F(c.max_x))
  /\ Gt(pt.x, F(c.min_x))
  /\ ~(Gt(pt.z, F(c.max_z)) \/ pt.z = F(c.max_z))

\* The box test of cloudcb (note the sign of y).
InBox(pt, c) ==
  /\ Gt(Neg(pt.y), F(c.min_y))
  /\ Lt(Neg(pt.y), F(c.max_y))
  /\ Lt(pt.x, F(c.max_x))
  /\ Gt(pt.x, F(c.min_x))
  /\ Lt(pt.z, F(c.max_z))

\* The accumulators before the loop: x = 0.0, y = 0.0, z = 1e6, n = 0.
AccInit == [x |-> F(0), y |-> F(0), z |-> F(100000000), n |-> 0]

\* The loop body over one run.  The validity test reads the accumulators
\* x, y, z (not the point), as the code does.
AccRun(acc, run, c) ==
  IF ~IsNaN(acc.x) /\ ~IsNaN(acc.y) /\ ~IsNaN(acc.z) /\ InBox(run.pt, c)
  THEN [x |-> AddTimes(acc.x, run.pt.x, run.mult),
        y |-> AddTimes(acc.y, run.pt.y, run.mult),
        z |-> FMin(acc.z, run.pt.z),
        n |-> acc.n + run.mult]
  ELSE acc

RECURSIVE AccLoop(_, _, _, _)
AccLoop(acc, cloud, i, c) ==
  IF i > Len(cloud) THEN acc
  ELSE AccLoop(AccRun(acc, cloud[i], c), cloud, i + 1, c)

\* BOOST_FOREACH over cloud->points.
BoxFilter(cloud, c) == AccLoop(AccInit, cloud, 1, c)

\* A variant that takes 4000 points for a centroid.
Found_Inclusive(acc) == acc.n >= 4000

\* if (n > 4000)
Found(acc) == acc.n > 4000

\* After x /= n: the tests x > 0.2 and x < -0.2 on the mean, without dividing.
XRight(acc) == ~IsNaN(acc.x) /\ acc.x.v > 20 * acc.n
XLeft(acc) == ~IsNaN(acc.x) /\ acc.x.v < (0 - 20) * acc.n

\* A variant that approaches at the goal distance too.
Approach_Inclusive(acc, c) == ~IsNaN(acc.z) /\ acc.z.v - c.goal_z >= 0

\* if (z - goal_z_ > 0)
Approach(acc, c) == ~IsNaN(acc.z) /\ acc.z.v - c.goal_z > 0

\* The count n of points that passed the box test, against 4000.
NClass(acc) ==
  IF acc.n < 4000 THEN "below" ELSE IF acc.n = 4000 THEN "at" ELSE "above"

\* The minimum z of the passing points against goal_z_ ("none": no point).
ZClass(acc, c) ==
  IF acc.n = 0 \/ IsNaN(acc.z) THEN "none"
  ELSE IF acc.z.v > c.goal_z THEN "above"
  ELSE IF acc.z.v = c.goal_z THEN "at"
  ELSE "below"

\* The mean x of the passing points against +-0.2.
XClass(acc) ==
  IF XRight(acc) THEN "right" ELSE IF XLeft(acc) THEN "left" ELSE "center"


\* --------------------------------------------------------- velocity tables

\* Mutant of RecoveryAngular: the right bumper turns the way the left does.
RecoveryAngular_SameTurn(regime, side) ==
  CASE side = "left" -> Milli(-400)
    [] side = "center" -> IF regime = "hold" THEN Milli(-400) ELSE Milli(-500)
    [] side = "right" -> Milli(-400)

\* The threshold of `if (count > ...)` in the loop of each bumper branch.
RecoveryBudget(side) == IF side = "center" THEN 20 ELSE 15

\* cmd->angular.z in the loop of each bumper branch; regime names the branch
\* of cloudcb ("approach", "hold", "nocentroid") that holds the loop.
RecoveryAngular(regime, side) ==
  CASE side = "left" -> Milli(-400)
    [] side = "center" -> IF regime = "hold" THEN Milli(-400) ELSE Milli(-500)
    [] side = "right" -> Milli(400)

\* The command one iteration of a recovery loop publishes.
RecoveryCmd(regime, side) == Cmd(Milli(-200), RecoveryAngular(regime, side))

\* Whether the else-branch of this dispatch calls rand().
CallsRand(acc) == Found(acc) /\ (XRight(acc) \/ XLeft(acc))

\* A variant whose direction starts as 1 (right).
direction_Right == TRUE

\* bool direction = 0: a local of cloudcb, initialised at every call.  The
\* branches x > 0.2 and x < -0.2 assign it and never read it; the branch
\* between them reads it and never assigns it.
direction == FALSE

\* A variant whose middle band ends at -0.4, as the log text of line 311 says.
ApproachLeftBand_LogText(m7) ==
  IF m7 >= -700 /\ m7 < -490 THEN Milli(-360)
  ELSE IF m7 >= -490 /\ m7 < -280 THEN m7
  ELSE Milli(-200)

\* angular.z of the Approach regime for x > 0.2; n7 is rand_angular.
ApproachRightBand(n7) ==
  IF n7 > 490 /\ n7 <= 700 THEN Milli(400)
  ELSE IF n7 > 280 /\ n7 <= 490 THEN n7
  ELSE Milli(300)

\* angular.z of the Approach regime for x < -0.2; m7 is rand_angular - 1.0.
ApproachLeftBand(m7) ==
  IF m7 >= -700 /\ m7 < -490 THEN Milli(-360)
  ELSE IF m7 >= -490 /\ m7 < -350 THEN m7
  ELSE Milli(-200)

\* The else-branch of the Approach regime (no bumper pressed).  r is rand();
\* cd is change_direction_.
ApproachFree(acc, r, cd) ==
  LET n7 == 100 * (r % 7)                   \* rand_angular = (rand() % 7) / 7.0
      m7 == n7 - 700                        \* ... - 1.0
  IN IF XRight(acc)
     THEN Cmd(Milli(200), ApproachRightBand(n7))
     ELSE IF XLeft(acc)
     THEN Cmd(Milli(200), ApproachLeftBand(m7))
     ELSE Cmd(Milli(200),
              IF direction THEN Milli(300)
              ELSE IF ~cd THEN Milli(-300)
              ELSE 0)

\* The else-branch of the Hold regime (no bumper pressed), MAX = 10.
HoldFree(acc, r) ==
  LET n10 == 70 * (r % 10)                  \* ang = double(rand() % MAX) / MAX
      m10 == n10 - 700                      \* ang - 1.0
  IN IF XRight(acc)
     THEN Cmd(0,
              IF n10 > 490 /\ n10 <= 700 THEN Milli(400)
              ELSE IF n10 > 280 /\ n10 <= 490 THEN n10
              ELSE Milli(300))
     ELSE IF XLeft(acc)
     THEN Cmd(0,
              IF m10 >= -700 /\ m10 < -490 THEN Milli(-200)
              ELSE IF m10 >= -490 /\ m10 < -280 THEN m10
              ELSE Milli(-200))
     ELSE Cmd(0, IF direction THEN Milli(300) ELSE Milli(-300))

\* A variant that turns while wandering.
WanderFree_Turning == Cmd(Milli(200), Milli(300))

\* The else-branch when no centroid is found and enabled_ holds.
WanderFree == Cmd(Milli(200), 0)

\* The branch of cloudcb the centroid selects.
Regime(acc, c) ==
  IF Found(acc) THEN (IF Approach(acc, c) THEN "approach" ELSE "hold")
  ELSE "nocentroid"

\* The command the final else of the selected branch publishes.
FreeCmd(acc, c, r, cd) ==
  CASE Regime(acc, c) = "approach" -> ApproachFree(acc, r, cd)
    [] Regime(acc, c) = "hold" -> HoldFree(acc, r)
    [] OTHER -> WanderFree

\* Mutant of Branch: the chain tests the right bumper first.
Branch_RightFirst(found, en, l, ct, rt) ==
  IF ~found /\ ~en THEN "disabled"
  ELSE IF rt THEN "right"
  ELSE IF ct THEN "center"
  ELSE IF l THEN "left"
  ELSE "free"

\* The if / else-if chain over the bumper flags: "disabled" when no centroid
\* is found and enabled_ is false (the chain is not reached), else the first
\* pressed side in the order left, center, right, else "free".
Branch(found, en, l, ct, rt) ==
  IF ~found /\ ~en THEN "disabled"
  ELSE IF l THEN "left"
  ELSE IF ct THEN "center"
  ELSE IF rt THEN "right"
  ELSE "free"

\* -------------------------------------------------------------- the state

VARIABLES
  enabled_,                 \* bool enabled_
  bumper_left_pressed_,     \* bool bumper_left_pressed_
  bumper_center_pressed_,   \* bool bumper_center_pressed_
  bumper_right_pressed_,    \* bool bumper_right_pressed_
  change_direction_,        \* bool change_direction_ (the recovery request)
  cfg,                      \* min_y_ .. x_scale_
  ros_ok,                   \* ros::ok()
  pc,                       \* "idle", or "loop": cloudcb is at a recovery loop
  count,                    \* the local count of the running cloudcb
  out,                      \* what the most recent callback did and published
  raisers,                  \* history: the sides whose Released->Pressed
                            \* transitions raised the request now standing
  lastMan,                  \* history: the side of the maneuver the previous
                            \* callback completed, "none" otherwise
  fresh                     \* history: cloudcb has not been called yet

vars == <<enabled_, bumper_left_pressed_, bumper_center_pressed_,
          bumper_right_pressed_, change_direction_, cfg, ros_ok, pc, count,
          out, raisers, lastMan, fresh>>

bumpers == <<bumper_left_pressed_, bumper_center_pressed_,
             bumper_right_pressed_>>

Pressed(side) ==
  CASE side = "left" -> bumper_left_pressed_
    [] side = "center" -> bumper_center_pressed_
    [] side = "right" -> bumper_right_pressed_

PressedSet == {s \in Sides : Pressed(s)}

\* The constructor and onInit: the bumper flags and change_direction_ are
\* false; enabled_ is not initialised by the constructor and is whatever the
\* "enabled" parameter, if any, gives; setCallback delivers the first
\* configuration.
Init ==
  /\ enabled_ \in BOOLEAN
  /\ bumper_left_pressed_ = FALSE
  /\ bumper_center_pressed_ = FALSE
  /\ bumper_right_pressed_ = FALSE
  /\ change_direction_ = FALSE
  /\ cfg \in Configs
  /\ ros_ok = TRUE
  /\ pc = "idle"
  /\ count = 0
  /\ out = [cb |-> "none"]
  /\ raisers = {}
  /\ lastMan = "none"
  /\ fresh = TRUE

\* ------------------------------------------------------------ bumperEventCB

\* The flags after an event: side b is set to v, the others keep their state.
SetBumper(b, v) ==
  /\ bumper_left_pressed_' = IF b = "left" THEN v ELSE bumper_left_pressed_
  /\ bumper_center_pressed_' =
       IF b = "center" THEN v ELSE bumper_center_pressed_
  /\ bumper_right_pressed_' = IF b = "right" THEN v ELSE bumper_right_pressed_

\* Mutant of BumperUpdate: every PRESSED event raises the request, also for
\* a side that is already pressed (level- instead of edge-triggered).
BumperUpdate_Level(b, st) ==
  /\ SetBumper(b, st = "PRESSED")
  /\ change_direction_' = IF st = "PRESSED" THEN TRUE ELSE change_direction_
  /\ raisers' = IF st # "PRESSED" \/ Pressed(b) THEN raisers
                ELSE IF change_direction_ THEN raisers \cup {b}
                ELSE {b}

\* Mutant of BumperUpdate: a RELEASED event withdraws the request.
BumperUpdate_Cancel(b, st) ==
  /\ SetBumper(b, st = "PRESSED")
  /\ change_direction_' =
       IF st = "PRESSED" THEN (IF ~Pressed(b) THEN TRUE ELSE change_direction_)
       ELSE FALSE
  /\ raisers' = IF st # "PRESSED" \/ Pressed(b) THEN raisers
                ELSE IF change_direction_ THEN raisers \cup {b}
                ELSE {b}

\* The assignments of bumperEventCB for bumper b and state st.
BumperUpdate(b, st) ==
  IF st = "PRESSED"
  THEN /\ SetBumper(b, TRUE)
       /\ change_direction_' = IF ~Pressed(b) THEN TRUE ELSE change_direction_
       /\ raisers' = IF Pressed(b) THEN raisers
                     ELSE IF change_direction_ THEN raisers \cup {b}
                     ELSE {b}
  ELSE /\ SetBumper(b, FALSE)
       /\ change_direction_' = change_direction_
       /\ raisers' = raisers

\* A bumper event delivered between two callbacks.
BumperEventCB(b, st) ==
  /\ ros_ok /\ pc = "idle"
  /\ BumperUpdate(b, st)
  /\ out' = [cb |-> "bumper", bumper |-> b, state |-> st, was |-> Pressed(b)]
  /\ lastMan' = "none"
  /\ UNCHANGED <<enabled_, cfg, ros_ok, pc, count, fresh>>

\* A bumper event whose callback runs while cloudcb sleeps in a recovery
\* loop (the two callbacks share the flags without a lock).
BumperDuringLoop(b, st) ==
  /\ ros_ok /\ pc = "loop"
  /\ out.raced < MaxRaced
  /\ BumperUpdate(b, st)
  /\ out' = [out EXCEPT !.raced = @ + 1]
  /\ UNCHANGED <<enabled_, cfg, ros_ok, pc, count, lastMan, fresh>>

\* ------------------------------------------------------------------ cloudcb

\* cloudcb up to its dispatch: the box filter, the choice of the branch, and,
\* when the branch is a final else, the one command it publishes and
\* publishBbox.  A bumper branch leaves the callback at its while loop.
CloudCb(cloud, r) ==
  /\ ros_ok /\ pc = "idle"
  /\ \E acc \in {BoxFilter(cloud, cfg)} :
     LET found == Found(acc)
         regime == Regime(acc, cfg)
         branch == Branch(found, enabled_, bumper_left_pressed_,
                          bumper_center_pressed_, bumper_right_pressed_)
         free == FreeCmd(acc, cfg, r, change_direction_)
         \* the final else of a found centroid with |x| <= 0.2 reads direction
         reads == found /\ branch = "free" /\ XClass(acc) = "center"
         \* the side the previous callback, a frame, set direction to
         before == IF out.cb = "cloud" /\ out.found /\ out.branch = "free"
                      /\ out.xside # "center"
                   THEN out.xside ELSE "none"
         rec == [cb |-> "cloud", found |-> found, regime |-> regime,
                 branch |-> branch, cd0 |-> change_direction_,
                 en0 |-> enabled_, press0 |-> PressedSet,
                 raisers0 |-> raisers, after |-> lastMan,
                 first |-> reads /\ fresh,
                 nclass |-> NClass(acc),
                 zclass |-> IF found /\ branch = "free"
                            THEN ZClass(acc, cfg) ELSE "none",
                 xside |-> IF found /\ branch = "free"
                           THEN XClass(acc) ELSE "none",
                 draw |-> IF CallsRand(acc) /\ branch = "free"
                             /\ Regime(acc, cfg) = "approach"
                          THEN r % 7 ELSE 0,
                 dirBefore |-> IF reads THEN before ELSE "none",
                 nfree |-> 0,
                 normal |-> IF found \/ enabled_
                            THEN {FreeCmd(acc, cfg, r, FALSE)} ELSE {},
                 ticks |-> 0, cmds |-> {}, cleared |-> FALSE,
                 raced |-> 0, marker |-> ~found, bbox |-> FALSE]
     IN /\ r \in (IF CallsRand(acc) /\ branch = "free" THEN 0..9 ELSE {0})
        /\ IF branch \in Sides
           THEN /\ pc' = "loop"
                /\ out' = rec
           ELSE /\ pc' = "idle"
                /\ out' = [rec EXCEPT
                             !.cmds = IF branch = "free" THEN {free} ELSE {},
                             !.nfree = IF branch = "free" THEN 1 ELSE 0,
                             !.bbox = TRUE]
  /\ count' = 0
  /\ lastMan' = "none"
  /\ fresh' = FALSE
  /\ UNCHANGED <<enabled_, bumpers, change_direction_, cfg, ros_ok, raisers>>

\* A variant that forgets the bumper of the maneuver it completes.
RecoveryTick_Releases ==
  /\ pc = "loop"
  /\ ros_ok /\ change_direction_
  /\ LET over == count + 1 > RecoveryBudget(out.branch)
         keep(side) == ~(over /\ out.branch = side)
     IN /\ count' = IF over THEN 0 ELSE count + 1
        /\ change_direction_' = IF over THEN FALSE ELSE change_direction_
        /\ raisers' = IF over THEN {} ELSE raisers
        /\ lastMan' = IF over THEN out.branch ELSE lastMan
        /\ bumper_left_pressed_' = (bumper_left_pressed_ /\ keep("left"))
        /\ bumper_center_pressed_' = (bumper_center_pressed_ /\ keep("center"))
        /\ bumper_right_pressed_' = (bumper_right_pressed_ /\ keep("right"))
        /\ out' = [out EXCEPT
                     !.ticks = @ + 1,
                     !.cmds = @ \cup {RecoveryCmd(out.regime, out.branch)},
                     !.cleared = over]
  /\ UNCHANGED <<enabled_, cfg, ros_ok, pc, fresh>>

\* One iteration of the recovery loop of the branch cloudcb is in:
\* while (ros::ok() && change_direction_) { count++; publish; sleep;
\*   if (count > budget) { change_direction_ = false; count = 0; } }
RecoveryTick ==
  /\ pc = "loop"
  /\ ros_ok /\ change_direction_
  /\ LET over == count + 1 > RecoveryBudget(out.branch)
     IN /\ count' = IF over THEN 0 ELSE count + 1
        /\ change_direction_' = IF over THEN FALSE ELSE change_direction_
        /\ raisers' = IF over THEN {} ELSE raisers
        /\ lastMan' = IF over THEN out.branch ELSE lastMan
        /\ out' = [out EXCEPT
                     !.ticks = @ + 1,
                     !.cmds = @ \cup {RecoveryCmd(out.regime, out.branch)},
                     !.cleared = over]
  /\ UNCHANGED <<enabled_, bumpers, cfg, ros_ok, pc, fresh>>

\* A variant that publishes cmd once more after the loop.
RecoveryExit_Publishes ==
  /\ pc = "loop"
  /\ ~(ros_ok /\ change_direction_)
  /\ pc' = "idle"
  /\ out' = [out EXCEPT !.bbox = TRUE, !.nfree = @ + 1,
                        !.cmds = @ \cup out.normal]
  /\ UNCHANGED <<enabled_, bumpers, change_direction_, cfg, ros_ok, count,
                 raisers, lastMan, fresh>>

\* The loop condition is false: cloudcb leaves the loop, publishes the
\* bounding box and returns.
RecoveryExit ==
  /\ pc = "loop"
  /\ ~(ros_ok /\ change_direction_)
  /\ pc' = "idle"
  /\ out' = [out EXCEPT !.bbox = TRUE]
  /\ UNCHANGED <<enabled_, bumpers, change_direction_, cfg, ros_ok, count,
                 raisers, lastMan, fresh>>

\* ---------------------------------------------------------- changeModeSrvCb

\* A variant that stops the motors on every STOPPED request.
ModePub_EveryStop(en, req) ==
  IF req = "STOPPED" THEN <<ZeroTwist>> ELSE <<>>

\* What the service publishes on cmdpub_: a zero Twist when it disables.
ModePub(en, req) ==
  IF en /\ req = "STOPPED" THEN <<ZeroTwist>> ELSE <<>>

\* enabled_ after the request.
ModeEnabled(en, req) ==
  IF en /\ req = "STOPPED" THEN FALSE
  ELSE IF ~en /\ req = "FOLLOW" THEN TRUE
  ELSE en

ChangeModeSrvCb(req) ==
  /\ ros_ok /\ pc = "idle"
  /\ enabled_' = ModeEnabled(enabled_, req)
  /\ out' = [cb |-> "mode", request |-> req, en0 |-> enabled_,
             pub |-> ModePub(enabled_, req), result |-> "OK"]
  /\ lastMan' = "none"
  /\ UNCHANGED <<bumpers, change_direction_, cfg, ros_ok, pc, count, raisers,
                 fresh>>

\* -------------------------------------------------------------- reconfigure

Reconfigure(c) ==
  /\ ros_ok /\ pc = "idle"
  /\ cfg' = c
  /\ out' = [cb |-> "reconfigure"]
  /\ lastMan' = "none"
  /\ UNCHANGED <<enabled_, bumpers, change_direction_, ros_ok, pc, count,
                 raisers, fresh>>

\* ros::ok() turns false (shutdown); a recovery loop then ends at its next
\* test and no further callback is delivered.
Shutdown ==
  /\ ros_ok
  /\ ros_ok' = FALSE
  /\ UNCHANGED <<enabled_, bumpers, change_direction_, cfg, pc, count, out,
                 raisers, lastMan, fresh>>

\* ------------------------------------------------------- the specifications

\* What cloudcb reads of the box filter's result: n > 4000, the regime, and
\* the side of the mean x; and how n and the minimum z lie to their thresholds.
Digest(acc, c) ==
  <<Found(acc), Regime(acc, c), XRight(acc), XLeft(acc), NClass(acc),
    ZClass(acc, c)>>

\* The frames delivered under configuration c: for every digest the box
\* filter's results have over Clouds, one cloud with that digest.
Frames ==
  [c \in Configs |->
     LET digest == [cl \in Clouds |-> Digest(BoxFilter(cl, c), c)]
     IN {CHOOSE cl \in Clouds : digest[cl] = d :
           d \in {digest[cl] : cl \in Clouds}}]

\* The values of rand() that matter to a frame under configuration c: all of
\* them when its final else calls rand(), one otherwise.
Rands ==
  [c \in Configs |->
     [cl \in Frames[c] |->
        IF CallsRand(BoxFilter(cl, c)) THEN 0..9 ELSE {0}]]

\* The values of rand() that matter to a frame in the current state: a
\* pressed bumper keeps cloudcb out of every final else.
Draws(cloud) == IF PressedSet = {} THEN Rands[cfg][cloud] ELSE {0}

\* The nodelet's callbacks taken one at a time.
Next ==
  \/ \E b \in Sides, st \in {"PRESSED", "RELEASED"} : BumperEventCB(b, st)
  \/ /\ pc = "idle"
     /\ \E cloud \in Frames[cfg] : \E r \in Draws(cloud) : CloudCb(cloud, r)
  \/ RecoveryTick
  \/ RecoveryExit
  \/ \E req \in {"STOPPED", "FOLLOW"} : ChangeModeSrvCb(req)
  \/ \E c \in Configs : Reconfigure(c)
  \/ Shutdown

Spec == Init /\ [][Next]_vars

\* The same with bumper callbacks also running during a recovery loop.
NextRace ==
  \/ Next
  \/ \E b \in Sides, st \in {"PRESSED", "RELEASED"} : BumperDuringLoop(b, st)

SpecRace == Init /\ [][NextRace]_vars

\* ------------------------------------------------- the box filter on its own

\* The points of Points and invalid readings in each coordinate.
FilterPoints ==
  Points \cup { Point(F(5), NaN, F(70)),
                Point(F(5), F(-30), NaN),
                Point(NaN, NaN, NaN) }

FilterRuns == [pt : FilterPoints, mult : {1, 4000}]

FilterClouds == UNION { [1..k -> FilterRuns] : k \in 0..MaxFilterRuns }

\* The node as constructed, with one frame delivered and not yet processed.
InitFilter ==
  /\ enabled_ \in BOOLEAN
  /\ bumper_left_pressed_ = FALSE
  /\ bumper_center_pressed_ = FALSE
  /\ bumper_right_pressed_ = FALSE
  /\ change_direction_ = FALSE
  /\ cfg \in Configs
  /\ ros_ok = TRUE
  /\ pc = "idle"
  /\ count = 0
  /\ out \in [cb : {"frame"}, cloud : FilterClouds]
  /\ raisers = {}
  /\ lastMan = "none"
  /\ fresh = TRUE

\* The loop of cloudcb over the delivered frame, lines 212-228, and nothing
\* after it: out keeps the frame and the accumulators x, y, z, n the loop
\* leaves.
FilterFrame ==
  /\ ros_ok /\ pc = "idle"
  /\ out.cb = "frame"
  /\ out' = [cb |-> "filter", cloud |-> out.cloud,
             acc |-> BoxFilter(out.cloud, cfg)]
  /\ UNCHANGED <<enabled_, bumpers, change_direction_, cfg, ros_ok, pc, count,
                 raisers, lastMan, fresh>>

NextFilter == FilterFrame

SpecFilter == InitFilter /\ [][NextFilter]_vars

\* ---------------------------------------------------------------- claims

\* The most recent callback was cloudcb and it has returned.
FrameDone == out.cb = "cloud" /\ pc = "idle"

\* The recovery table of the specification: angular_z and tick budget.
TableAngular(side) ==
  CASE side = "left" -> Milli(-400)
    [] side = "center" -> Milli(-500)
    [] side = "right" -> Milli(400)

TableBudget(side) == IF side = "center" THEN 20 ELSE 15

TableCmds == {Cmd(Milli(-200), TableAngular(s)) : s \in Sides}

\* The first side of a set in the order Left > Center > Right.
Priority(S) ==
  IF "left" \in S THEN "left"
  ELSE IF "center" \in S THEN "center"
  ELSE "right"

\* C1.  Recovery preemption: a frame processed while the recovery request is
\* active (change_direction_ true at its dispatch) publishes only commands of
\* the recovery table, never a GoalController or Wanderer command.
C1_RecoveryPreempts ==
  (out.cb = "cloud" /\ out.cd0) => out.cmds \subseteq TableCmds

\* C2.  Tick budget: a maneuver that clears the request has published exactly
\* 15 commands (Left, Right) or 20 commands (Center).
C2_TickBudget ==
  (out.cb = "cloud" /\ out.cleared) => out.ticks = TableBudget(out.branch)

\* C3.  A request raised by a Released->Pressed transition is honoured
\* whatever Released events follow: a frame that is dispatched (a centroid is
\* found or the controller is enabled) while the request is active runs a
\* recovery maneuver to its end.
C3_HonouredAfterRelease ==
  (FrameDone /\ ros_ok /\ out.cd0 /\ (out.found \/ out.en0))
    => (out.ticks > 0 /\ out.cleared)

\* C4.  Bumper edge-triggering: a PRESSED event for a side already pressed
\* changes neither the bumper flags nor the request, a PRESSED event for a
\* released side sets its flag and raises the request; so every maneuver
\* answers a Released->Pressed transition made since the last maneuver
\* completed, and a frame dispatched with Left pressed and the request active
\* runs the Left maneuver.
C4_EdgeTriggered ==
  /\ [](out.cb = "cloud" /\ out.ticks > 0 => out.raisers0 # {})
  /\ [](FrameDone /\ ros_ok /\ out.cd0 /\ "left" \in out.press0
          /\ (out.found \/ out.en0)
        => out.branch = "left" /\ out.ticks > 0 /\ out.cleared)
  /\ [][\A b \in Sides :
          BumperEventCB(b, "PRESSED") =>
            IF Pressed(b)
            THEN UNCHANGED <<bumpers, change_direction_>>
            ELSE /\ change_direction_'
                 /\ PressedSet' = PressedSet \cup {b}]_vars

\* A PRESSED event for Left arrived with Left held since a completed maneuver,
\* and raised nothing.
C4_Witness ==
  /\ out.cb = "bumper" /\ out.bumper = "left" /\ out.state = "PRESSED"
  /\ out.was /\ bumper_left_pressed_ /\ ~change_direction_

\* C5.  No cancellation: a RELEASED event changes only its side's flag and
\* leaves the request as it is; while a maneuver is running the request stays
\* active, and a maneuver that has started ends (short of shutdown) only by
\* clearing the request after its full tick budget, whatever bumper callbacks
\* run before or during its loop.
C5_NoCancellation ==
  /\ [](pc = "loop" /\ out.ticks > 0 /\ ~out.cleared => change_direction_)
  /\ [](FrameDone /\ ros_ok /\ out.ticks > 0
        => out.cleared /\ out.ticks >= TableBudget(out.branch))
  /\ [][\A b \in Sides :
          (BumperEventCB(b, "RELEASED") \/ BumperDuringLoop(b, "RELEASED"))
            => /\ change_direction_' = change_direction_
               /\ PressedSet' = PressedSet \ {b}]_vars

C5_Witness ==
  /\ FrameDone /\ ros_ok /\ out.cleared /\ out.raced > 0
  /\ out.press0 # {} /\ PressedSet = {}

\* C6.  Priority among sides: a maneuver is that of the first pressed side in
\* the order Left > Center > Right, one frame publishes the commands of one
\* side only, and the request a maneuver has served produces no second
\* maneuver in the next frame.
C6_Priority ==
  /\ (out.cb = "cloud" /\ out.ticks > 0)
       => /\ out.press0 # {}
          /\ out.branch = Priority(out.press0)
          /\ Cardinality(out.cmds) = 1
  /\ (out.cb = "cloud" /\ out.after # "none") => out.ticks = 0

C6_Witness ==
  /\ FrameDone /\ out.cleared /\ out.branch = "center"
  /\ out.press0 = {"center", "right"}

LoopAngular(regime, side) ==
  IF side = "center" /\ regime = "hold" THEN Milli(-400)
  ELSE TableAngular(side)

C8_ResumesAfterRecovery ==
  (FrameDone /\ ros_ok /\ out.after = "left" /\ (out.found \/ out.en0))
    => out.cmds = out.normal

\* C9.  Disabled means no forward motion: a frame processed with enabled_
\* false publishes no command with linear_x > 0.
C9_DisabledNoForward ==
  (out.cb = "cloud" /\ ~out.en0) => \A c \in out.cmds : c.linear_x <= 0

\* C10.  Bumper recovery overrides the disabled state: a frame processed
\* with enabled_ false, the request active and a side that raised it still
\* pressed runs a recovery maneuver.
C10_RecoveryOverridesDisabled ==
  (FrameDone /\ ros_ok /\ ~out.en0 /\ out.cd0
     /\ out.raisers0 \cap out.press0 # {})
    => out.ticks > 0

\* C11.  Enable/disable service: STOPPED while enabled publishes exactly one
\* zero command and clears enabled_; FOLLOW while disabled sets enabled_ and
\* publishes nothing; the two other combinations change nothing and publish
\* nothing; every request answers OK.  After a request enabled_ is what the
\* request asks for, so the same request again changes and publishes nothing.
C11_ModeService ==
  out.cb = "mode"
    => /\ out.result = "OK"
       /\ (out.request = "STOPPED" /\ out.en0)
            => (out.pub = <<Cmd(0, 0)>> /\ ~enabled_)
       /\ (out.request = "FOLLOW" /\ ~out.en0)
            => (out.pub = <<>> /\ enabled_)
       /\ (out.request = "STOPPED" /\ ~out.en0)
            => (out.pub = <<>> /\ ~enabled_)
       /\ (out.request = "FOLLOW" /\ out.en0)
            => (out.pub = <<>> /\ enabled_)
       /\ enabled_ = (out.request = "FOLLOW")

\* A STOPPED request that found the node disabled.
C11_Witness ==
  out.cb = "mode" /\ out.request = "STOPPED" /\ ~out.en0 /\ out.pub = <<>>

\* C12.  Regime selection: a frame with a found centroid and no bumper
\* pressed publishes linear_x = 0.2 exactly when z_min - goal_z > 0 and
\* linear_x = 0 exactly when z_min - goal_z <= 0, the boundary z_min = goal_z
\* included; the GoalController publishes no other linear_x.
C12_RegimeByDepth ==
  (FrameDone /\ out.found /\ out.press0 = {})
    => /\ out.cmds # {}
       /\ \A c \in out.cmds :
            /\ c.linear_x \in {Milli(200), 0}
            /\ c.linear_x = Milli(200) <=> out.zclass = "above"
            /\ c.linear_x = 0 <=> out.zclass \in {"at", "below"}

\* A found centroid exactly at goal_z, no bumper pressed.
C12_Witness ==
  /\ FrameDone /\ out.found /\ out.press0 = {}
  /\ out.zclass = "at"
  /\ \E c \in out.cmds : c.linear_x = 0

C14_Threshold ==
  out.cb = "cloud"
    => /\ out.nclass \in {"below", "at"}
            => /\ ~out.found /\ out.regime = "nocentroid"
               /\ out.branch = "free" => out.cmds \subseteq {Cmd(Milli(200), 0)}
               /\ out.branch = "disabled" => out.cmds = {}
               /\ out.branch \in Sides => out.cmds \subseteq TableCmds
       /\ out.nclass = "above"
            => /\ out.found /\ out.regime \in {"approach", "hold"}
               /\ out.branch \in Sides \cup {"free"}

\* A frame with exactly 4000 passing points, wandering.
C14_Witness ==
  /\ FrameDone /\ out.nclass = "at" /\ out.branch = "free"
  /\ out.cmds = {Cmd(Milli(200), 0)}

C16_FirstFrameRight ==
  (FrameDone /\ out.first /\ out.regime = "approach" /\ out.xside = "center"
     /\ out.press0 = {} /\ ~out.cd0)
    => out.cmds = {Cmd(Milli(200), Milli(300))}

\* C16 as amended.  That first frame publishes {linear_x = 0.2,
\* angular_z = -0.3}: direction starts as 0, the left turn.
C16_FirstFrameLeft ==
  (FrameDone /\ out.first /\ out.regime = "approach" /\ out.xside = "center"
     /\ out.press0 = {} /\ ~out.cd0)
    => (out.cmds = {Cmd(Milli(200), Milli(-300))} /\ out.nfree = 1)

\* The first frame ever, in the Approach regime with |x| <= 0.2.
C16_Witness ==
  /\ FrameDone /\ out.first /\ out.regime = "approach" /\ out.xside = "center"
  /\ out.press0 = {} /\ ~out.cd0
  /\ out.cmds = {Cmd(Milli(200), Milli(-300))}

\* C17.  Recovery table: in every dispatch branch the maneuver of Left is
\* {-0.4, -0.2}, of Center {-0.5, -0.2}, of Right {0.4, -0.2}.
C17_OneTable ==
  (out.cb = "cloud" /\ out.ticks > 0)
    => out.cmds = {Cmd(Milli(-200), TableAngular(out.branch))}

\* C18.  Command rate: a frame publishes at most one command that is not a
\* recovery command; it publishes more than one command only in a recovery
\* maneuver, which publishes one command per tick and no other command in
\* that frame.
C18_CommandRate ==
  out.cb = "cloud"
    => /\ out.nfree <= 1
       /\ out.ticks + out.nfree > 1 => out.branch \in Sides
       /\ out.branch \in Sides
            => /\ out.nfree = 0
               /\ out.ticks > 0
                    => out.cmds = {RecoveryCmd(out.regime, out.branch)}
       /\ out.ticks > 0 => out.branch \in Sides

\* A completed frame that published several commands, all in its maneuver.
C18_Witness ==
  FrameDone /\ out.ticks > 1 /\ out.nfree = 0 /\ out.branch \in Sides

\* C19.  Frame conditions: the bumper flags change only in a bumper event,
\* enabled_ changes only in an enable/disable request, the recovery request
\* is raised only by a bumper event and cleared only by the tick that
\* completes a maneuver.  So a frame changes neither the bumper flags nor
\* enabled_, a bumper event does not change enabled_, and a request changes
\* neither the bumper flags nor the recovery request.
C19_FrameConditions ==
  [][/\ bumpers' # bumpers => out'.cb = "bumper"
     /\ enabled_' # enabled_ => out'.cb = "mode"
     /\ (~change_direction_ /\ change_direction_') => out'.cb = "bumper"
     /\ (change_direction_ /\ ~change_direction_')
          => /\ pc = "loop" /\ out'.cb = "cloud" /\ out'.cleared
             /\ out'.ticks > TableBudget(out.branch)]_vars

\* A frame completed its maneuver: the request is cleared, the bumper is
\* still pressed and enabled_ is what it was at the dispatch.
C19_Witness ==
  /\ FrameDone /\ out.cleared /\ ~change_direction_
  /\ PressedSet # {} /\ PressedSet = out.press0
  /\ enabled_ = out.en0

Invalid(run) == IsNaN(run.pt.x) \/ IsNaN(run.pt.y) \/ IsNaN(run.pt.z)

Valid(run) == ~Invalid(run)

\* The frame with its invalid readings removed.
WithoutNaN(cloud) == SelectSeq(cloud, Valid)

\* C21.  NaN exclusion: wherever the invalid points stand in a frame, a point
\* with a NaN x, y or z is not counted, not added to the sums of x and y and
\* not taken as the minimum z: the count, the sums and the minimum z the
\* loop leaves are those of the frame with the NaN points removed, and none
\* of them is NaN.
C21_NaNExcluded ==
  out.cb = "filter"
    => /\ out.acc = BoxFilter(WithoutNaN(out.cloud), cfg)
       /\ ~IsNaN(out.acc.x) /\ ~IsNaN(out.acc.y) /\ ~IsNaN(out.acc.z)

\* A frame whose first run is invalid, followed by valid points that the
\* loop counted.
C21_Witness ==
  /\ out.cb = "filter"
  /\ Len(out.cloud) >= 2
  /\ Invalid(out.cloud[1])
  /\ \E i \in 2..Len(out.cloud) : Valid(out.cloud[i])
  /\ out.acc.n > 0

=============================================================================
